---- MODULE Spec2Model ----
(***************************************************************************)
(* Element.Dimensions.js (MooTools): scrollTo, getSize, getScroll,         *)
(* getPosition, getTop, getLeft and getCoordinates over a layout tree of   *)
(* DOM elements.                                                           *)
(*                                                                         *)
(* A JavaScript value is a record [t, v]: a number, undefined or NaN.      *)
(* An element is a record of its host attributes; offsetParent is another  *)
(* element's handle or Null.  The handle Absent stands for a `this` that   *)
(* is no element at all (the global object a non-strict function receives  *)
(* when it is called without a receiver): every attribute read on it       *)
(* yields undefined.                                                       *)
(***************************************************************************)
EXTENDS Integers, Sequences, FiniteSets, TLC

\* ---------------------------------------------------------------- bounds
\* Number of elements of the layout tree.
NumNodes == 3
\* Longest `overflown` array handed to getPosition and its forwarders.
MaxContainers == 2

Nodes == 1..NumNodes
\* el.offsetParent of a top element (null); also the falsy end of `while (el)`.
Null == 0
\* A receiver that is not an element: all of its attributes are undefined.
Absent == 0
Targets == Nodes \cup {Absent}

\* ------------------------------------------------------ JavaScript values
Num(n) == [t |-> "number", v |-> n]
Undefined == [t |-> "undefined", v |-> 0]
NaN == [t |-> "NaN", v |-> 0]

IsNumber(a) == a.t = "number"

\* Faulty variant of OrZero: the operand used as it is, the `|| 0` left out.
OrZeroRaw(a) == a

\* a || 0 : a when a is truthy (a non-zero number), else the number 0.
OrZero(a) == IF a.t = "number" /\ a.v # 0 THEN a ELSE Num(0)

\* a + b and a - b on numbers; undefined or NaN operands give NaN.
JsAdd(a, b) == IF a.t = "number" /\ b.t = "number" THEN Num(a.v + b.v) ELSE NaN
JsSub(a, b) == IF a.t = "number" /\ b.t = "number" THEN Num(a.v - b.v) ELSE NaN

\* --------------------------------------------------------- the layout tree
\* Host attributes of an element that the code reads without a default:
\* the three (width, height) pairs of getSize are numbers on every element.
\* offsetLeft / offsetTop may be missing on some node kinds (the code
\* defaults them with || 0).  The first three boxes carry the local offsets
\* (10,5), (20,0), (0,15); the last has no offsetLeft at all.
Box(ol, ot, w, h) ==
    [offsetLeft |-> ol, offsetTop |-> ot,
     offsetWidth |-> Num(w), offsetHeight |-> Num(h),
     clientWidth |-> Num(w - 2), clientHeight |-> Num(h - 2),
     scrollWidth |-> Num(w + 30), scrollHeight |-> Num(h + 40)]

BoxOrder ==
    << Box(Num(10), Num(5), 200, 300),
       Box(Num(20), Num(0), 120, 80),
       Box(Num(0), Num(15), 50, 60),
       Box(Undefined, Num(15), 50, 60) >>

\* The boxes of the elements, in document order, starting anywhere in BoxOrder.
BoxFor(n, shift) == BoxOrder[((n - 1 + shift) % Len(BoxOrder)) + 1]
Shifts == 0..(Len(BoxOrder) - 1)

\* (x, y) pairs handed to scrollTo.
ScrollArgs == { <<10, 20>>, <<5, 5>> }

Element(box, parent) ==
    [offsetLeft |-> box.offsetLeft, offsetTop |-> box.offsetTop,
     offsetWidth |-> box.offsetWidth, offsetHeight |-> box.offsetHeight,
     clientWidth |-> box.clientWidth, clientHeight |-> box.clientHeight,
     scrollWidth |-> box.scrollWidth, scrollHeight |-> box.scrollHeight,
     offsetParent |-> parent,
     scrollLeft |-> Undefined, scrollTop |-> Undefined]

\* Well-formed parent links: an element's offsetParent is Null or an element
\* created before it, so every chain is finite and acyclic.
ParentMaps == { p \in [Nodes -> Nodes \cup {Null}] : \A n \in Nodes : p[n] < n }

\* `overflown` as the caller passes it: omitted, one element, or an array.
NoArg == [kind |-> "absent", ref |-> Null, elems |-> << >>]
Single(c) == [kind |-> "single", ref |-> c, elems |-> << >>]
Arr(s) == [kind |-> "array", ref |-> Null, elems |-> s]

SeqsUpTo(S, k) == UNION { [1..i -> S] : i \in 0..k }
Overflowns ==
    {NoArg} \cup { Single(c) : c \in Nodes }
            \cup { Arr(s) : s \in SeqsUpTo(Nodes, MaxContainers) }

\* tree      : the live layout tree (the host's elements and their attributes)
\* overflown : the `overflown` argument the caller passes to getPosition,
\*             getTop, getLeft and getCoordinates
\* last      : the most recent call and what it returned
VARIABLES tree, overflown, last

\* One call of getPosition taken statement by statement:
\* pc      : "idle" (no call running), "loop" (in the do-while), "each" (in
\*           overflown.each)
\* self    : the receiver `this` of the running call
\* el      : the local `el`
\* pos     : the locals (left, top) as a point
\* list    : the local `overflown` after $splat
\* idx     : the position of overflown.each in list
\* visited : the elements the do-while body has run for, in order
VARIABLES pc, self, el, pos, list, idx, visited

walk == <<pc, self, el, pos, list, idx, visited>>
vars == <<tree, overflown, last, walk>>

\* this.<name> : an element's attribute, undefined on anything else.
Prop(t, this, name) == IF this \in Nodes THEN t[this][name] ELSE Undefined

\* Faulty variant of OffsetParentOf: `el = el.offsetParent || el`, which stays on
\* the top element instead of leaving the chain.
OffsetParentStuck(t, e) ==
    IF e \in Nodes
    THEN IF t[e].offsetParent = Null THEN e ELSE t[e].offsetParent
    ELSE Null

\* el.offsetParent : an element's link, falsy on anything else.
OffsetParentOf(t, e) == IF e \in Nodes THEN t[e].offsetParent ELSE Null

Point(x, y) == [x |-> x, y |-> y]

\* The record of the most recent call: what was called, on what, with what,
\* and what it returned.
Call(op, this, arg, x, y, result) ==
    [op |-> op, node |-> this, arg |-> arg, x |-> x, y |-> y,
     outcome |-> "returned", result |-> result]

NoCall ==
    [op |-> "none", node |-> Absent, arg |-> NoArg, x |-> 0, y |-> 0,
     outcome |-> "none", result |-> Undefined]

NoWalk ==
    /\ pc = "idle" /\ self = Absent /\ el = Null
    /\ pos = Point(Num(0), Num(0))
    /\ list = << >> /\ idx = 1 /\ visited = << >>

Init ==
    /\ \E p \in ParentMaps : \E shift \in Shifts :
          tree = [n \in Nodes |-> Element(BoxFor(n, shift), p[n])]
    /\ overflown \in Overflowns
    /\ last = NoCall
    /\ NoWalk

\* Faulty variant of ScrollToTree: the offsetParent is scrolled along with the element.
ScrollToTreeAndParent(t, n, x, y) ==
    LET up == t[n].offsetParent
        own == [t EXCEPT ![n].scrollLeft = Num(x), ![n].scrollTop = Num(y)]
    IN  IF up = Null THEN own
        ELSE [own EXCEPT ![up].scrollLeft = Num(x), ![up].scrollTop = Num(y)]

\* ------------------------------------------------------------- scrollTo
\* this.scrollLeft = x; this.scrollTop = y;
ScrollToTree(t, n, x, y) ==
    [t EXCEPT ![n].scrollLeft = Num(x), ![n].scrollTop = Num(y)]

ScrollTo(n, x, y) ==
    /\ tree' = ScrollToTree(tree, n, x, y)
    /\ last' = Call("scrollTo", n, NoArg, x, y, Undefined)
    /\ UNCHANGED <<overflown, walk>>

\* -------------------------------------------------------------- getSize
GetSizeOf(t, this) ==
    [client |-> Point(Prop(t, this, "clientWidth"), Prop(t, this, "clientHeight")),
     offset |-> Point(Prop(t, this, "offsetWidth"), Prop(t, this, "offsetHeight")),
     scroll |-> Point(Prop(t, this, "scrollWidth"), Prop(t, this, "scrollHeight"))]

GetSize(this) ==
    /\ last' = Call("getSize", this, NoArg, 0, 0, GetSizeOf(tree, this))
    /\ UNCHANGED <<tree, overflown, walk>>

\* Faulty variant of GetScrollOf: the two coordinates exchanged.
GetScrollSwapped(t, this) ==
    Point(Prop(t, this, "scrollTop"), Prop(t, this, "scrollLeft"))

\* ------------------------------------------------------------ getScroll
GetScrollOf(t, this) == Point(Prop(t, this, "scrollLeft"), Prop(t, this, "scrollTop"))

GetScroll(this) ==
    /\ last' = Call("getScroll", this, NoArg, 0, 0, GetScrollOf(tree, this))
    /\ UNCHANGED <<tree, overflown, walk>>

\* ----------------------------------------------------------- getPosition
\* $splat(overflown): nothing -> [], an array -> itself, anything else -> [it].
Splat(arg) ==
    CASE arg.kind = "absent" -> << >>
      [] arg.kind = "array" -> arg.elems
      [] OTHER -> << arg.ref >>

\* Faulty variant of OffsetWalk: `while (el.offsetParent) { ... }`, which leaves
\* the loop before the offsets of the top element are added.
RECURSIVE OffsetWalkShort(_, _, _)
OffsetWalkShort(t, e, acc) ==
    LET up == OffsetParentOf(t, e)
    IN  IF up = Null THEN acc
        ELSE OffsetWalkShort(t, up,
                Point(JsAdd(acc.x, OrZero(Prop(t, e, "offsetLeft"))),
                      JsAdd(acc.y, OrZero(Prop(t, e, "offsetTop")))))

\* do { left += el.offsetLeft || 0; top += el.offsetTop || 0;
\*      el = el.offsetParent; } while (el);
\* The body runs for e (the local el) before the test; acc is (left, top) so far.
RECURSIVE OffsetWalk(_, _, _)
OffsetWalk(t, e, acc) ==
    LET left == JsAdd(acc.x, OrZero(Prop(t, e, "offsetLeft")))
        top == JsAdd(acc.y, OrZero(Prop(t, e, "offsetTop")))
        up == OffsetParentOf(t, e)
    IN  IF up # Null THEN OffsetWalk(t, up, Point(left, top))
        ELSE Point(left, top)

\* Faulty variant of ScrollWalk: a container met a second time is passed over.
RECURSIVE ScrollWalkDistinct(_, _, _, _)
ScrollWalkDistinct(t, containers, i, acc) ==
    IF i > Len(containers) THEN acc
    ELSE IF \E j \in 1..(i - 1) : containers[j] = containers[i]
         THEN ScrollWalkDistinct(t, containers, i + 1, acc)
         ELSE ScrollWalkDistinct(t, containers, i + 1,
                Point(JsSub(acc.x, OrZero(Prop(t, containers[i], "scrollLeft"))),
                      JsSub(acc.y, OrZero(Prop(t, containers[i], "scrollTop")))))

\* overflown.each(function(element){ left -= element.scrollLeft || 0;
\*                                   top -= element.scrollTop || 0; });
RECURSIVE ScrollWalk(_, _, _, _)
ScrollWalk(t, containers, i, acc) ==
    IF i > Len(containers) THEN acc
    ELSE ScrollWalk(t, containers, i + 1,
            Point(JsSub(acc.x, OrZero(Prop(t, containers[i], "scrollLeft"))),
                  JsSub(acc.y, OrZero(Prop(t, containers[i], "scrollTop")))))

\* Faulty variant of GetPositionOf: `overflown` used as it came, $splat left out, so
\* that a single container is no array and nothing is iterated.
GetPositionNoSplat(t, this, arg) ==
    ScrollWalk(t, arg.elems, 1, OffsetWalk(t, this, Point(Num(0), Num(0))))

\* Faulty variant of GetPositionOf: `var el = this, left, top = 0`, left never set.
GetPositionLeftUnset(t, this, arg) ==
    ScrollWalk(t, Splat(arg), 1, OffsetWalk(t, this, Point(Undefined, Num(0))))

GetPositionOf(t, this, arg) ==
    LET containers == Splat(arg)
        walked == OffsetWalk(t, this, Point(Num(0), Num(0)))
    IN  ScrollWalk(t, containers, 1, walked)

\* Faulty variant of GetPosition: the containers are scrolled back to 0 as they are read.
GetPositionResetting(this) ==
    /\ last' = Call("getPosition", this, overflown, 0, 0,
                     GetPositionOf(tree, this, overflown))
    /\ tree' = [n \in Nodes |->
                  IF \E i \in DOMAIN Splat(overflown) : Splat(overflown)[i] = n
                  THEN [tree[n] EXCEPT !.scrollLeft = Num(0), !.scrollTop = Num(0)]
                  ELSE tree[n]]
    /\ UNCHANGED <<overflown, walk>>

GetPosition(this) ==
    /\ last' = Call("getPosition", this, overflown, 0, 0,
                     GetPositionOf(tree, this, overflown))
    /\ UNCHANGED <<tree, overflown, walk>>

\* --------------------------------------------------------- getTop, getLeft
GetTopOf(t, this, arg) == GetPositionOf(t, this, arg).y

GetTop(this) ==
    /\ last' = Call("getTop", this, overflown, 0, 0,
                     GetTopOf(tree, this, overflown))
    /\ UNCHANGED <<tree, overflown, walk>>

GetLeftOf(t, this, arg) == GetPositionOf(t, this, arg).x

GetLeft(this) ==
    /\ last' = Call("getLeft", this, overflown, 0, 0,
                     GetLeftOf(tree, this, overflown))
    /\ UNCHANGED <<tree, overflown, walk>>

\* ------------------------------------------------------- getCoordinates
\* Faulty variant of GetCoordinatesOf: right and bottom take the other dimension.
GetCoordinatesCrossed(t, this, arg) ==
    LET position == GetPositionOf(t, this, arg)
    IN  [top |-> position.y, left |-> position.x,
         width |-> Prop(t, this, "offsetWidth"),
         height |-> Prop(t, this, "offsetHeight"),
         right |-> JsAdd(position.x, Prop(t, this, "offsetHeight")),
         bottom |-> JsAdd(position.y, Prop(t, this, "offsetWidth"))]

GetCoordinatesOf(t, this, arg) ==
    LET position == GetPositionOf(t, this, arg)
        obj == [top |-> position.y, left |-> position.x,
                width |-> Prop(t, this, "offsetWidth"),
                height |-> Prop(t, this, "offsetHeight")]
    IN  [top |-> obj.top, left |-> obj.left,
         width |-> obj.width, height |-> obj.height,
         right |-> JsAdd(obj.left, obj.width),
         bottom |-> JsAdd(obj.top, obj.height)]

GetCoordinates(this) ==
    /\ last' = Call("getCoordinates", this, overflown, 0, 0,
                     GetCoordinatesOf(tree, this, overflown))
    /\ UNCHANGED <<tree, overflown, walk>>

Next ==
    \/ \E n \in Nodes : \E a \in ScrollArgs : ScrollTo(n, a[1], a[2])
    \/ \E this \in Targets : GetSize(this)
    \/ \E this \in Targets : GetScroll(this)
    \/ \E this \in Targets : GetPosition(this)
    \/ \E this \in Targets : GetTop(this)
    \/ \E this \in Targets : GetLeft(this)
    \/ \E this \in Targets : GetCoordinates(this)

Spec == Init /\ [][Next]_vars

\* ------------------------------------- getPosition, statement by statement
\* Elements already scrolled when the call starts: scrollTo(5, 5) was called
\* on some of them.
WalkInit ==
    /\ \E p \in ParentMaps : \E shift \in Shifts : \E scrolled \in SUBSET Nodes :
          tree = [n \in Nodes |->
                    IF n \in scrolled
                    THEN [Element(BoxFor(n, shift), p[n])
                            EXCEPT !.scrollLeft = Num(5), !.scrollTop = Num(5)]
                    ELSE Element(BoxFor(n, shift), p[n])]
    /\ overflown \in Overflowns
    /\ last = NoCall
    /\ NoWalk

\* overflown = $splat(overflown); var el = this, left = 0, top = 0;
WalkEnter(elem) ==
    /\ pc = "idle"
    /\ pc' = "loop"
    /\ self' = elem
    /\ list' = Splat(overflown)
    /\ el' = elem
    /\ pos' = Point(Num(0), Num(0))
    /\ idx' = 1
    /\ visited' = << >>
    /\ UNCHANGED <<tree, overflown, last>>

\* One turn of the do-while: the body, then the test `while (el)`.
WalkLoop ==
    /\ pc = "loop"
    /\ pos' = Point(JsAdd(pos.x, OrZero(Prop(tree, el, "offsetLeft"))),
                    JsAdd(pos.y, OrZero(Prop(tree, el, "offsetTop"))))
    /\ visited' = Append(visited, el)
    /\ el' = OffsetParentOf(tree, el)
    /\ pc' = IF el' # Null THEN "loop" ELSE "each"
    /\ UNCHANGED <<tree, overflown, last, self, list, idx>>

\* One call of the function handed to overflown.each.
WalkEach ==
    /\ pc = "each"
    /\ idx <= Len(list)
    /\ pos' = Point(JsSub(pos.x, OrZero(Prop(tree, list[idx], "scrollLeft"))),
                    JsSub(pos.y, OrZero(Prop(tree, list[idx], "scrollTop"))))
    /\ idx' = idx + 1
    /\ UNCHANGED <<tree, overflown, last, pc, self, el, list, visited>>

\* return {'x': left, 'y': top};
WalkReturn ==
    /\ pc = "each"
    /\ idx > Len(list)
    /\ last' = Call("getPosition", self, overflown, 0, 0, pos)
    /\ pc' = "idle"
    /\ UNCHANGED <<tree, overflown, self, el, pos, list, idx, visited>>

WalkStep == WalkLoop \/ WalkEach \/ WalkReturn

WalkNext ==
    \/ \E elem \in Targets : WalkEnter(elem)
    \/ WalkLoop
    \/ WalkEach
    \/ WalkReturn

WalkSpec == WalkInit /\ [][WalkNext]_vars

\* A call that has started runs to its end: the interpreter executes the
\* statements of a running function one after the other.
FairWalkSpec == WalkSpec /\ WF_vars(WalkStep)

\* ------------------------------------------------------------ properties
\* The number an attribute stands for when an absent one counts as 0.
IntOrZero(a) == IF a.t = "number" THEN a.v ELSE 0

RECURSIVE SumFn(_)
SumFn(f) ==
    IF DOMAIN f = {} THEN 0
    ELSE LET d == CHOOSE d \in DOMAIN f : TRUE
         IN  f[d] + SumFn([x \in DOMAIN f \ {d} |-> f[x]])

\* The elements reached from n by following offsetParent until it is absent
\* (n included): the ends of the offsetParent paths that start at n.
ChainOf(t, n) ==
    { s[Len(s)] : s \in { q \in SeqsUpTo(Nodes, NumNodes) :
                            /\ Len(q) >= 1
                            /\ q[1] = n
                            /\ \A i \in 1..(Len(q) - 1) :
                                  t[q[i]].offsetParent = q[i + 1] } }

\* (sum of offsetLeft over the chain) - (sum of scrollLeft over the
\* containers), and the same with offsetTop and scrollTop.
ExpectedPoint(t, n, containers) ==
    LET chain == ChainOf(t, n)
        sumOf(name) == SumFn([m \in chain |-> IntOrZero(t[m][name])])
        scrollOf(name) ==
            SumFn([i \in DOMAIN containers |-> IntOrZero(t[containers[i]][name])])
    IN  Point(Num(sumOf("offsetLeft") - scrollOf("scrollLeft")),
              Num(sumOf("offsetTop") - scrollOf("scrollTop")))

OffsetsOf(t, n) == <<t[n].offsetLeft, t[n].offsetTop>>

\* n is three levels deep, the local offsets on its chain being (10,5),
\* (20,0) and (0,15).
ThreeDeepExample(t, n) ==
    /\ Cardinality(ChainOf(t, n)) = 3
    /\ { OffsetsOf(t, m) : m \in ChainOf(t, n) } =
          { <<Num(10), Num(5)>>, <<Num(20), Num(0)>>, <<Num(0), Num(15)>> }

PositionOps == {"getPosition", "getTop", "getLeft", "getCoordinates"}
ReadOps == PositionOps \cup {"getSize", "getScroll"}

\* C1: getPosition(overflown) on an element returns x = (sum of offsetLeft
\* over the element and every element reached by following offsetParent)
\* minus (sum of scrollLeft over the containers), and y likewise with
\* offsetTop and scrollTop; the three-deep example with no containers gives
\* {x: 30, y: 20}, and an element with no offsetParent gives its own offsets.
C1_PositionIsChainSum ==
    (last.op = "getPosition" /\ last.node \in Nodes /\ last.arg.kind = "array") =>
        /\ last.result = ExpectedPoint(tree, last.node, last.arg.elems)
        /\ (ThreeDeepExample(tree, last.node) /\ last.arg.elems = << >>) =>
              last.result = Point(Num(30), Num(20))
        /\ (tree[last.node].offsetParent = Null /\ last.arg.elems = << >>) =>
              last.result = Point(OrZero(tree[last.node].offsetLeft),
                                  OrZero(tree[last.node].offsetTop))

C1_Witness ==
    /\ last.op = "getPosition" /\ last.node \in Nodes
    /\ last.arg = Arr(<< >>)
    /\ ThreeDeepExample(tree, last.node)
    /\ last.result = Point(Num(30), Num(20))

\* What the containers alone take off the position of a receiver that is no
\* element: nothing is added by the do-while.
AbsentPoint(t, containers) ==
    Point(Num(0 - SumFn([i \in DOMAIN containers |->
                            IntOrZero(t[containers[i]].scrollLeft)])),
          Num(0 - SumFn([i \in DOMAIN containers |->
                            IntOrZero(t[containers[i]].scrollTop)])))

C3_BoxInvariant ==
    (last.op = "getCoordinates" /\ last.node \in Nodes) =>
        LET r == last.result
            position == ExpectedPoint(tree, last.node, Splat(last.arg))
        IN  /\ \A k \in DOMAIN r : IsNumber(r[k])
            /\ r.right.v = r.left.v + r.width.v
            /\ r.bottom.v = r.top.v + r.height.v
            /\ r.left = position.x /\ r.top = position.y
            /\ r.width = tree[last.node].offsetWidth
            /\ r.height = tree[last.node].offsetHeight

C3_Witness ==
    /\ last.op = "getCoordinates" /\ last.node \in Nodes
    /\ Len(Splat(last.arg)) = 2
    /\ tree[last.node].offsetParent # Null
    /\ \E i \in 1..2 : IsNumber(tree[Splat(last.arg)[i]].scrollLeft)
    /\ last.result.right.v # last.result.bottom.v

C5_ContainersSubtracted ==
    (last.op = "getPosition" /\ last.arg.kind = "array") =>
        LET cs == last.arg.elems
            base == GetPositionOf(tree, last.node, Arr(<< >>))
            sx == SumFn([i \in DOMAIN cs |-> IntOrZero(tree[cs[i]].scrollLeft)])
            sy == SumFn([i \in DOMAIN cs |-> IntOrZero(tree[cs[i]].scrollTop)])
        IN  /\ IsNumber(base.x) /\ IsNumber(base.y)
            /\ last.result = Point(Num(base.x.v - sx), Num(base.y.v - sy))
            /\ Len(cs) = 1 =>
                  last.result =
                      Point(Num(base.x.v - IntOrZero(tree[cs[1]].scrollLeft)),
                            Num(base.y.v - IntOrZero(tree[cs[1]].scrollTop)))

\* A container that is no ancestor of the element, scrolled, given twice.
C5_Witness ==
    /\ last.op = "getPosition" /\ last.node \in Nodes
    /\ last.arg.kind = "array" /\ Len(last.arg.elems) = 2
    /\ last.arg.elems[1] = last.arg.elems[2]
    /\ last.arg.elems[1] \notin ChainOf(tree, last.node)
    /\ tree[last.arg.elems[1]].scrollLeft = Num(10)
    /\ last.result.x =
          Num(GetPositionOf(tree, last.node, Arr(<< >>)).x.v - 20)

SameCall(a, b) == a.op = b.op /\ a.node = b.node /\ a.arg = b.arg

\* C6: getPosition, getTop, getLeft, getCoordinates, getSize and getScroll
\* change no attribute of any element, and the same read made twice in
\* succession returns the same result.
C6_ReadsLeaveTree ==
    [][ last'.op \in ReadOps =>
          /\ tree' = tree
          /\ SameCall(last, last') => last'.result = last.result ]_vars

C6_Witness ==
    /\ last.op = "getCoordinates" /\ last.node \in Nodes
    /\ \A n \in Nodes : IsNumber(tree[n].scrollLeft)

\* What a forwarder makes of the point getPosition returns.
Forwarded(op, t, n, p) ==
    CASE op = "getPosition" -> p
      [] op = "getTop" -> p.y
      [] op = "getLeft" -> p.x
      [] OTHER -> [top |-> p.y, left |-> p.x,
                   width |-> Prop(t, n, "offsetWidth"),
                   height |-> Prop(t, n, "offsetHeight"),
                   right |-> JsAdd(p.x, Prop(t, n, "offsetWidth")),
                   bottom |-> JsAdd(p.y, Prop(t, n, "offsetHeight"))]

\* C7: getPosition, getTop, getLeft and getCoordinates given one container
\* instead of a sequence return what the one-element sequence gives, and
\* given nothing what the empty sequence gives.
C7_SingleIsOneElementArray ==
    (last.op \in PositionOps /\ last.node \in Nodes) =>
        /\ last.arg.kind = "single" =>
              last.result = Forwarded(last.op, tree, last.node,
                               ExpectedPoint(tree, last.node, << last.arg.ref >>))
        /\ last.arg.kind = "absent" =>
              last.result = Forwarded(last.op, tree, last.node,
                               ExpectedPoint(tree, last.node, << >>))

C7_Witness ==
    /\ last.op = "getTop" /\ last.node \in Nodes
    /\ last.arg.kind = "single"
    /\ tree[last.arg.ref].scrollTop = Num(20)
    /\ last.result = Num(ExpectedPoint(tree, last.node, << >>).y.v - 20)

\* The tree with every absent offsetLeft, offsetTop, scrollLeft and scrollTop
\* replaced by 0.
Zeroed(t) ==
    [n \in Nodes |->
        [t[n] EXCEPT !.offsetLeft = Num(IntOrZero(t[n].offsetLeft)),
                     !.offsetTop = Num(IntOrZero(t[n].offsetTop)),
                     !.scrollLeft = Num(IntOrZero(t[n].scrollLeft)),
                     !.scrollTop = Num(IntOrZero(t[n].scrollTop))]]

\* C8: an absent offsetLeft/offsetTop on the element or an ancestor, or an
\* absent scrollLeft/scrollTop on a container, counts as 0: getPosition on an
\* element returns a Point of two numbers, the one obtained with each absent
\* attribute replaced by 0.
C8_MissingIsZero ==
    (last.op = "getPosition" /\ last.node \in Nodes) =>
        /\ IsNumber(last.result.x) /\ IsNumber(last.result.y)
        /\ last.result = GetPositionOf(Zeroed(tree), last.node, last.arg)

C8_Witness ==
    /\ last.op = "getPosition" /\ last.node \in Nodes
    /\ \E m \in ChainOf(tree, last.node) : tree[m].offsetLeft = Undefined
    /\ Len(Splat(last.arg)) = 2
    /\ tree[Splat(last.arg)[1]].scrollLeft = Undefined
    /\ IsNumber(tree[Splat(last.arg)[2]].scrollLeft)
    /\ IsNumber(last.result.x)

Occurrences(seq, n) == Cardinality({ i \in DOMAIN seq : seq[i] = n })

\* C10: scrollTo(x, y) on element n changes n's scrollLeft and scrollTop and
\* nothing else, so getPosition(m, C) is unchanged when C does not contain n
\* and changes by the negated change of n's scroll offset when C contains n
\* once.
C10_ScrollToFrame ==
    [][ last'.op = "scrollTo" =>
          LET n == last'.node
              cs == Splat(overflown)
              dx == last'.x - IntOrZero(tree[n].scrollLeft)
              dy == last'.y - IntOrZero(tree[n].scrollTop)
          IN  /\ \A m \in Nodes \ {n} : tree'[m] = tree[m]
              /\ tree'[n] = [tree[n] EXCEPT !.scrollLeft = Num(last'.x),
                                            !.scrollTop = Num(last'.y)]
              /\ \A m \in Targets :
                    LET before == GetPositionOf(tree, m, overflown)
                        after == GetPositionOf(tree', m, overflown)
                    IN  /\ Occurrences(cs, n) = 0 => after = before
                        /\ Occurrences(cs, n) = 1 =>
                              after = Point(Num(before.x.v - dx),
                                            Num(before.y.v - dy)) ]_vars

\* A second scrollTo on the same element, which some call reads as a container.
C10_Witness ==
    /\ last.op = "scrollTo"
    /\ last.x = 5
    /\ Occurrences(Splat(overflown), last.node) = 1
    /\ \E m \in Nodes \ {last.node} : tree[m].scrollLeft = Num(10)

\* The do-while has run its body for self, then for each element met by
\* following offsetParent, never for the same one twice; once it is over
\* the last one has no offsetParent and every element of the chain was met.
VisitedOnce ==
    /\ \A i, j \in DOMAIN visited : visited[i] = visited[j] => i = j
    /\ visited # << >> => visited[1] = self
    /\ \A i \in 1..(Len(visited) - 1) :
          visited[i + 1] = tree[visited[i]].offsetParent
    /\ pc = "loop" => el = IF visited = << >> THEN self
                          ELSE tree[visited[Len(visited)]].offsetParent
    /\ (pc # "loop" /\ visited # << >>) =>
          /\ self \in Nodes =>
                /\ tree[visited[Len(visited)]].offsetParent = Null
                /\ { visited[i] : i \in DOMAIN visited } = ChainOf(tree, self)
          /\ self = Absent => visited = << Absent >>

\* C9: in a well-formed layout tree the offsetParent walk of getPosition
\* visits the element and each ancestor on its chain exactly once, stops
\* when offsetParent is absent, and the call returns.
C9_WalkTerminates ==
    /\ []VisitedOnce
    /\ (pc = "loop") ~> (pc = "idle" /\ last.op = "getPosition")

C9_Witness ==
    /\ pc = "idle" /\ last.op = "getPosition"
    /\ self \in Nodes /\ Len(visited) = 3
    /\ last.result = ExpectedPoint(tree, self, Splat(overflown))
====
